---- MODULE Spec2Model ----
(***************************************************************************)
(* A model of the S2Tiles archive engine (src/src/index.ts, S2TilesStore). *)
(*                                                                         *)
(* The archive file is a byte store.  It is kept sparse: `len` is the file *)
(* length and `data` maps the positions that hold a non-zero byte to that  *)
(* byte; every other position below `len` holds 0.  Reads past the end     *)
(* leave the (zero-initialised) buffer untouched, as fs.read does.         *)
(*                                                                         *)
(* Integers of the model are 32 bits wide.  All bytes the model stores are *)
(* below 128, so every little-endian u32 read from the file is below 2^31. *)
(* A 48-bit offset whose upper 32-bit word is 2^14 or more (a position of  *)
(* 2^30 or more) only arises when bytes that are not a node record are     *)
(* read as one; it is represented by FarPos, a position beyond every file  *)
(* of the model.                                                           *)
(***************************************************************************)
EXTENDS Integers, Sequences, FiniteSets, TLC

----------------------------------------------------------------------------
(* Bounds of the model *)

\* most putTile calls in a behaviour of Spec (writer and reader handles)
MaxPuts == 2
\* most putTile calls in a behaviour of SpecWrite (writer handle only)
MaxPutsW == 3
\* metadata objects are {"v": m} for m in 1..MaxMeta
MaxMeta == 2

----------------------------------------------------------------------------
(* Program constants *)

Unknown == 0
None == 1
Gzip == 2
Brotli == 3
Zstd == 4

NODE_SIZE == 10
DIR_SIZE == 1365 * NODE_SIZE
METADATA_SIZE == 131072
ROOT_DIR_SIZE == DIR_SIZE * 6
ROOT_SIZE == METADATA_SIZE + ROOT_DIR_SIZE

\* a magic that an archive without a header carries
NoMagic == 0 * 256

\* dv.getUint16(0, true) of the bytes 'S' (83), '2' (50)
MAGIC == 12883

\* positions of 2^30 and more, see the note at the top
FarPos == 16384 * 65536

Min(a, b) == IF a < b THEN a ELSE b
Max(a, b) == IF a > b THEN a ELSE b

----------------------------------------------------------------------------
(* Little-endian integers in a byte sequence (Buffer / DataView) *)

\* writeUint16LE / writeUInt16LE
LE16(n) == << n % 256, (n \div 256) % 256 >>
\* writeUint32LE / writeUInt32LE
LE32(n) == << n % 256, (n \div 256) % 256, (n \div 65536) % 256, (n \div 16777216) % 256 >>
\* readUint16LE(i), i counted from 0
FromLE16(b, i) == b[i + 1] + 256 * b[i + 2]
\* readUint32LE(i), i counted from 0
FromLE32(b, i) == b[i + 1] + 256 * b[i + 2] + 65536 * b[i + 3] + 16777216 * b[i + 4]

\* _readUInt48LE taking every slot for an empty one
readUInt48LEZero(b) == 0

\* _readUInt48LE: upper word * 2^16 + lower word
readUInt48LE(b) ==
  LET upper == FromLE32(b, 2)
      lower == FromLE16(b, 0)
  IN  IF upper >= 16384 THEN FarPos ELSE upper * 65536 + lower

\* _writeUInt48LE storing the lower word only
writeUInt48LELow(num) == LE16(num % 65536) \o LE32(0)

\* _writeUInt48LE: the six bytes stored for num
writeUInt48LE(num) == LE16(num % 65536) \o LE32(num \div 65536)

\* Numbers up to 2^48, beyond the integers of the checker, are pairs
\* << hi, lo >> standing for hi * 2^24 + lo, with lo < 2^24
Wide(n) == << n \div 16777216, n % 16777216 >>

\* the three bytes of a number below 2^24, low byte first
LE24(n) == << n % 256, (n \div 256) % 256, (n \div 65536) % 256 >>

\* num & 0xffff: ToInt32 keeps num modulo 2^32, of which the low 16 bits
Low16(num) == num[2] % 65536

\* num / (1 << 16) as writeUInt32LE stores it: the bytes of its integer part
\* (the store to a byte and `>>> 8` drop the fraction)
UpperBytes(num) == << num[2] \div 65536 >> \o LE24(num[1])

\* _writeUInt48LE with `num >>> 16` in place of num / (1 << 16): the number
\* is cut to 32 bits first
writeUInt48LEWide32(num) ==
  LE16(Low16(num)) \o << num[2] \div 65536, num[1] % 256, 0, 0 >>

\* _writeUInt48LE for a number up to 2^48
writeUInt48LEWide(num) == LE16(Low16(num)) \o UpperBytes(num)

\* _readUInt48LE for a number up to 2^48: readUint32LE(2) * (1 << 16) +
\* readUint16LE(0), exact in a double
readUInt48LEWide(b) ==
  << b[4] + 256 * b[5] + 65536 * b[6], b[1] + 256 * b[2] + 65536 * b[3] >>

\* writeUint32LE / readUint32LE for a number up to 2^32
LE32Wide(num) == LE24(num[2]) \o << num[1] % 256 >>
FromLE32Wide(b, i) == << b[i + 4], b[i + 1] + 256 * b[i + 2] + 65536 * b[i + 3] >>

\* the ten bytes #writeNode builds for node = [offset, length]
nodeBuf(offset, length) == writeUInt48LEWide(offset) \o LE32Wide(length)

----------------------------------------------------------------------------
(* The byte store: fs.read / fs.write on the archive file *)

NoBytes == [p \in {} |-> 0]

\* writeSync(openSync(path, 'w'), new Uint8Array(n)): n zero bytes
NewFile(n) == [len |-> n, data |-> NoBytes]

Byte(f, p) == IF p \in DOMAIN f.data THEN f.data[p] ELSE 0

\* readAsync(file, buf, 0, n, pos) into a zero-filled buffer of n bytes
ReadAt(f, pos, n) == [i \in 1..n |-> Byte(f, pos + i - 1)]

\* writeAsync(file, bytes, 0, Len(bytes), pos).  The bytes written replace
\* what the file held in their range; where no non-zero byte of the file is
\* replaced by a zero, that is the bytes written laid over the file's
WriteAt(f, bytes, pos) ==
  LET n     == Len(bytes)
      keep  == {p \in DOMAIN f.data : p < pos \/ p >= pos + n}
      nz    == {p \in pos..(pos + n - 1) : bytes[p - pos + 1] # 0}
      stale == {p \in DOMAIN f.data : p >= pos /\ p < pos + n /\ bytes[p - pos + 1] = 0}
  IN  IF n = 0 THEN f
      ELSE [len  |-> Max(f.len, pos + n),
            data |-> IF stale = {} /\ Cardinality(keep) > n
                     THEN [p \in nz |-> bytes[p - pos + 1]] @@ f.data
                     ELSE [p \in keep \cup nz |->
                             IF p >= pos /\ p < pos + n THEN bytes[p - pos + 1]
                             ELSE f.data[p]]]

\* a write of n zeros that leaves the file as it was
ZeroFillNothing(f, pos, n) == f

\* writeAsync(file, Buffer.alloc(n), 0, n, pos): n zero bytes
ZeroFill(f, pos, n) ==
  LET keep == {p \in DOMAIN f.data : p < pos \/ p >= pos + n}
  IN  IF n = 0 THEN f
      ELSE [len  |-> Max(f.len, pos + n),
            data |-> IF keep = DOMAIN f.data THEN f.data ELSE [p \in keep |-> f.data[p]]]

----------------------------------------------------------------------------
(* Path encoder *)

\* the slices [zoom, x, y] collected by the while loop, then the residual
\* the loop with the test zoom > 5 in place of zoom >= 5
RECURSIVE PathSlicesGt(_, _, _)
PathSlicesGt(zoom, x, y) ==
  IF zoom > 5
  THEN << << 5, x % 32, y % 32 >> >> \o PathSlicesGt(Max(zoom - 5, 0), x \div 32, y \div 32)
  ELSE << << zoom, x, y >> >>

RECURSIVE PathSlices(_, _, _)
PathSlices(zoom, x, y) ==
  IF zoom >= 5
  THEN << << 5, x % 32, y % 32 >> >> \o PathSlices(Max(zoom - 5, 0), x \div 32, y \div 32)
  ELSE << << zoom, x, y >> >>

\* the level base taken as 0 for every level
LevelBaseZero(zoom) == 0

\* while (zoom-- !== 0) val += pow(1 << zoom, 2)
RECURSIVE LevelBase(_)
LevelBase(zoom) == IF zoom = 0 THEN 0 ELSE (2 ^ (zoom - 1)) * (2 ^ (zoom - 1)) + LevelBase(zoom - 1)

\* the map callback with x and y taken for each other
SlotIndexYX(s) == s[2] * (2 ^ s[1]) + s[3] + LevelBase(s[1])

\* the map callback: val = y * (1 << zoom) + x, plus the levels above
SlotIndex(s) == s[3] * (2 ^ s[1]) + s[2] + LevelBase(s[1])

getS2TilePath(zoom, x, y) ==
  LET slices == PathSlices(zoom, x, y)
  IN  [i \in 1..Len(slices) |-> SlotIndex(slices[i])]

\* PROCEDURE GetTilePath of the format document: the first loop
RECURSIVE DocPath(_, _, _)
DocPath(zoom, x, y) ==
  IF zoom >= 5
  THEN << << 5, x % 32, y % 32 >> >> \o DocPath(Max(zoom - 5, 0), x \div 32, y \div 32)
  ELSE << << zoom, x, y >> >>

\* WHILE tempZoom # 0: tempZoom <- tempZoom - 1, val <- val + (2 ^ tempZoom) ^ 2
RECURSIVE DocLevels(_, _)
DocLevels(tempZoom, val) ==
  IF tempZoom = 0 THEN val ELSE DocLevels(tempZoom - 1, val + (2 ^ (tempZoom - 1)) ^ 2)

\* FOR EACH (z, i, j) IN path: val <- j * (2 ^ z) + i, then the levels
GetTilePath(zoom, x, y) ==
  LET path == DocPath(zoom, x, y)
  IN  [n \in 1..Len(path) |->
         DocLevels(path[n][1], path[n][3] * (2 ^ path[n][1]) + path[n][2])]

----------------------------------------------------------------------------
(* Directory geometry *)

\* do { dirSize += pow(1 << remainder, 2) } while (remainder-- !== 0), remainder >= 0
RECURSIVE DirSlots(_)
DirSlots(remainder) ==
  IF remainder = 0 THEN 1 ELSE (2 ^ remainder) * (2 ^ remainder) + DirSlots(remainder - 1)

\* _buildDirSize giving every directory a single slot
buildDirSizeOne(depth, maxzoom) == NODE_SIZE

\* _buildDirSize with a remainder one level short
buildDirSizeShort(depth, maxzoom) ==
  LET remainder == Min(maxzoom - depth - 1, 5)
  IN  IF remainder < 0 THEN -1 ELSE DirSlots(remainder) * NODE_SIZE

\* _buildDirSize without the remainder: every directory has the six levels
buildDirSizeFull(depth, maxzoom) == DirSlots(5) * NODE_SIZE

\* _buildDirSize; with a negative remainder the loop never reaches 0: -1 stands
\* for that call not returning
buildDirSize(depth, maxzoom) ==
  LET remainder == Min(maxzoom - depth, 5)
  IN  IF remainder < 0 THEN -1 ELSE DirSlots(remainder) * NODE_SIZE

----------------------------------------------------------------------------
(* Compression.  gzip and brotli are zlib's; they are modelled by a run-length *)
(* codec with a closing byte that depends on the kind: its output can be      *)
(* longer or shorter than its input, a truncated stream does not decode,      *)
(* bytes after the closing byte are ignored, and a stream of one kind does    *)
(* not decode as the other.                                                   *)

Closing(kind) == 120 + kind

RECURSIVE RunLength(_)
RunLength(s) ==
  IF Len(s) <= 1 THEN Len(s)
  ELSE IF s[2] = s[1] THEN 1 + RunLength(Tail(s)) ELSE 1

RECURSIVE Encode(_, _)
Encode(kind, s) ==
  IF s = << >> THEN << Closing(kind) >>
  ELSE LET n == RunLength(s)
       IN  << n, s[1] >> \o Encode(kind, SubSeq(s, n + 1, Len(s)))

\* [ok, out]: ok = FALSE is the codec's error
RECURSIVE Decode(_, _)
Decode(kind, d) ==
  IF d = << >> THEN [ok |-> FALSE, out |-> << >>]
  ELSE IF d[1] = Closing(kind) THEN [ok |-> TRUE, out |-> << >>]
  ELSE IF d[1] = 0 \/ d[1] >= 120 \/ Len(d) < 2 THEN [ok |-> FALSE, out |-> << >>]
  ELSE LET rest == Decode(kind, SubSeq(d, 3, Len(d)))
       IN  [ok |-> rest.ok, out |-> [i \in 1..d[1] |-> d[2]] \o rest.out]

\* compress() taking every kind it has no codec for as Compression.None
compressAny(data, compression) ==
  IF compression \in {Gzip, Brotli} THEN [ok |-> TRUE, out |-> Encode(compression, data)]
  ELSE [ok |-> TRUE, out |-> data]

\* compress(data, compression)
compress(data, compression) ==
  IF compression = None THEN [ok |-> TRUE, out |-> data]
  ELSE IF compression \in {Gzip, Brotli} THEN [ok |-> TRUE, out |-> Encode(compression, data)]
  ELSE [ok |-> FALSE, out |-> << >>]

\* decompress(data, compression)
decompress(data, compression) ==
  IF compression = None THEN [ok |-> TRUE, out |-> data]
  ELSE IF compression \in {Gzip, Brotli} THEN Decode(compression, data)
  ELSE [ok |-> FALSE, out |-> << >>]

----------------------------------------------------------------------------
(* Metadata: the objects {"v": m}, m a digit *)

Metas == 1..MaxMeta

\* encoder.encode(JSON.stringify(metadata)): the bytes of {"v":m}.  Metadata 0
\* is `undefined`: JSON.stringify gives undefined, which encode() takes as '';
\* metadata m >= 10 is {"v":"x...x"} with m letters x
Stringify(m) ==
  IF m = 0 THEN << >>
  ELSE IF m < 10 THEN << 123, 34, 118, 34, 58, 48 + m, 125 >>
  ELSE << 123, 34, 118, 34, 58, 34 >> \o [i \in 1..m |-> 120] \o << 34, 125 >>

\* JSON.parse(decoder.decode(bytes)); ok = FALSE is the SyntaxError
Parse(b) ==
  IF Len(b) = 7 /\ SubSeq(b, 1, 5) = << 123, 34, 118, 34, 58 >> /\ b[7] = 125
     /\ b[6] \in 49..57
  THEN [ok |-> TRUE, meta |-> b[6] - 48]
  ELSE IF Len(b) >= 18 /\ SubSeq(b, 1, 6) = << 123, 34, 118, 34, 58, 34 >>
          /\ b[Len(b) - 1] = 34 /\ b[Len(b)] = 125
          /\ \A i \in 7..(Len(b) - 2) : b[i] = 120
  THEN [ok |-> TRUE, meta |-> Len(b) - 8]
  ELSE [ok |-> FALSE, meta |-> 0]

----------------------------------------------------------------------------
(* S2TilesStore: one record per handle *)

\* the constructor's field initialisers; metadata 0 is `undefined`.  parsing
\* is TRUE while a setup() call is suspended at its `await readAsync`
NewHandle(maxzoom, compression) ==
  [open |-> TRUE, isSetup |-> FALSE, offset |-> ROOT_SIZE, maxzoom |-> maxzoom,
   version |-> 1, compression |-> compression, metadata |-> 0, parsing |-> FALSE]

\* a handle that has not been constructed yet
NoHandle == [NewHandle(0, Gzip) EXCEPT !.open = FALSE]

\* setup(): [h, err]
setup(f, h) ==
  IF h.isSetup THEN [h |-> h, err |-> "none"]
  ELSE
    LET h1 == [h EXCEPT !.isSetup = TRUE]
        dv == ReadAt(f, 0, 10)
    IN  IF FromLE16(dv, 0) # MAGIC THEN [h |-> h1, err |-> "bad-magic"]
        ELSE
          LET h2 == [h1 EXCEPT !.version = FromLE16(dv, 2), !.maxzoom = dv[5],
                               !.compression = dv[6]]
              mL == FromLE32(dv, 6)
              md == decompress(ReadAt(f, 10, Min(mL, ROOT_SIZE - 10)), h2.compression)
              js == Parse(md.out)
          IN  IF mL = 0 THEN [h |-> h2, err |-> "missing-metadata"]
              ELSE IF ~md.ok THEN [h |-> h2, err |-> "codec"]
              ELSE IF ~js.ok THEN [h |-> h2, err |-> "syntax"]
              ELSE [h |-> [h2 EXCEPT !.metadata = js.meta], err |-> "none"]

\* getMetadata(): [h, err, ret]; ret 0 is `undefined`
getMetadata(f, h) ==
  IF h.metadata # 0 THEN [h |-> h, err |-> "none", ret |-> h.metadata]
  ELSE LET s == setup(f, h)
       IN  [h |-> s.h, err |-> s.err, ret |-> s.h.metadata]

\* this.offset += n, without the addition
AdvanceStuck(offset, n) == offset

\* this.offset += n (putTile, #createLeafDir)
Advance(offset, n) == offset + n

\* #writeNode leaving a slot that holds a record as it is
writeNodeOnce(f, cursor, node) ==
  IF ReadAt(f, cursor, NODE_SIZE) = [i \in 1..NODE_SIZE |-> 0]
  THEN WriteAt(f, writeUInt48LE(node[1]) \o LE32(node[2]), cursor)
  ELSE f

\* #writeNode(cursor, node): the file after the write
writeNode(f, cursor, node) ==
  WriteAt(f, writeUInt48LE(node[1]) \o LE32(node[2]), cursor)

\* #createLeafDir(cursor, depth): [file, offset, leaf, size]; offset is this.offset
\* after the call, leaf the returned position
createLeafDir(f, offset, maxzoom, cursor, depth) ==
  LET dirSize == buildDirSize(depth, maxzoom)
      f1      == ZeroFill(f, offset, dirSize)
  IN  [file   |-> writeNode(f1, cursor, << offset, dirSize >>),
       offset |-> Advance(offset, dirSize),
       leaf   |-> offset,
       size   |-> dirSize]

\* the while loop of #walk, entered with `path` left to consume
\* [cursor, file, offset, leaves]: leaves lists the directories created, in order
RECURSIVE WalkLoop(_, _, _, _, _, _, _, _, _)
WalkLoop(f, offset, maxzoom, zoom, cursor, depth, path, create, leaves) ==
  IF path = << >>
  THEN [cursor |-> cursor, file |-> f, offset |-> offset, leaves |-> leaves]
  ELSE
    LET shift == Head(path)
        rest  == Tail(path)
        d     == depth + 1
        cur   == cursor + shift * NODE_SIZE
        leaf  == readUInt48LE(ReadAt(f, cur, NODE_SIZE))
        made  == createLeafDir(f, offset, maxzoom, cur, d * 5)
    IN  IF rest = << >>
        THEN [cursor |-> cur, file |-> f, offset |-> offset, leaves |-> leaves]
        ELSE IF maxzoom % 5 = 0 /\ Len(rest) = 1 /\ zoom = maxzoom /\ rest[1] = 0
        THEN [cursor |-> cur, file |-> f, offset |-> offset, leaves |-> leaves]
        ELSE IF leaf = 0
        THEN IF create
             THEN WalkLoop(made.file, made.offset, maxzoom, zoom, made.leaf, d, rest, create,
                           Append(leaves, [off |-> made.leaf, size |-> made.size,
                                           slot |-> cur]))
             ELSE [cursor |-> 0, file |-> f, offset |-> offset, leaves |-> leaves]
        ELSE WalkLoop(f, offset, maxzoom, zoom, leaf, d, rest, create, leaves)

\* #walk creating the missing leaf directories whatever `create` is
walkCreating(f, offset, maxzoom, face, zoom, x, y, create) ==
  WalkLoop(f, offset, maxzoom, zoom, METADATA_SIZE + face * DIR_SIZE, 0,
           getS2TilePath(zoom, x, y), TRUE, << >>)

\* #walk(face, zoom, x, y, create)
walk(f, offset, maxzoom, face, zoom, x, y, create) ==
  WalkLoop(f, offset, maxzoom, zoom, METADATA_SIZE + face * DIR_SIZE, 0,
           getS2TilePath(zoom, x, y), create, << >>)

\* cursor === undefined: #walk returns a number on each of its paths (a slot
\* position, or 0 for a missing leaf), never `undefined`
IsUndefined(cursor) == FALSE

\* hasTileS2's verdict without the test of the length
NodePresentByOffset(offset, length) == offset # 0

\* hasTileS2's verdict on the node record it read
NodePresent(offset, length) == offset # 0 /\ length # 0

\* hasTileS2(face, zoom, x, y): [h, file, err, ret]; file is the archive after the call
hasTileS2(f, h, face, zoom, x, y) ==
  LET s      == setup(f, h)
      w      == walk(f, s.h.offset, s.h.maxzoom, face, zoom, x, y, FALSE)
      node   == ReadAt(f, w.cursor, NODE_SIZE)
      h1     == [s.h EXCEPT !.offset = w.offset]
  IN  IF s.err # "none" THEN [h |-> s.h, file |-> f, err |-> s.err, ret |-> FALSE]
      ELSE IF IsUndefined(w.cursor)
      THEN [h |-> h1, file |-> w.file, err |-> "none", ret |-> FALSE]
      ELSE [h |-> h1, file |-> w.file, err |-> "none",
            ret |-> NodePresent(readUInt48LE(node), FromLE32(node, 6))]

\* getTileS2(face, zoom, x, y): [h, file, err, undef, ret]; undef is the
\* `undefined` result, file the archive after the call
getTileS2(f, h, face, zoom, x, y) ==
  LET s      == setup(f, h)
      w      == walk(f, s.h.offset, s.h.maxzoom, face, zoom, x, y, FALSE)
      node   == ReadAt(f, w.cursor, NODE_SIZE)
      offset == readUInt48LE(node)
      length == FromLE32(node, 6)
      out    == decompress(ReadAt(f, offset, length), s.h.compression)
      h1     == [s.h EXCEPT !.offset = w.offset]
  IN  IF s.err # "none"
      THEN [h |-> s.h, file |-> f, err |-> s.err, undef |-> FALSE, ret |-> << >>]
      ELSE IF IsUndefined(w.cursor)
      THEN [h |-> h1, file |-> w.file, err |-> "none", undef |-> TRUE, ret |-> << >>]
      ELSE IF ~out.ok
      THEN [h |-> h1, file |-> w.file, err |-> "codec", undef |-> FALSE, ret |-> << >>]
      ELSE [h |-> h1, file |-> w.file, err |-> "none", undef |-> FALSE, ret |-> out.out]

\* the bytes writeAsync(file, data, 0, length, position) takes from `data`.
\* With length > data.byteLength the call is outside what fs.write defines for
\* the view: `tail` is the outcome, -1 for the range error, else the value of
\* the bytes taken from beyond the view.
Taken(data, length, tail) ==
  IF length <= Len(data) THEN SubSeq(data, 1, length)
  ELSE data \o [i \in 1..(length - Len(data)) |-> tail]

\* the outcomes of that write
Tails(data, length) == IF length <= Len(data) THEN {0} ELSE {-1, 0, 127}

\* putTile(face, zoom, x, y, data): [file, offset, err, at, length, leaves]
\* offset is this.offset after the call; at, length the node record written
putTile(f, h, face, zoom, x, y, data, tail) ==
  LET length == Len(data)
      node   == << h.offset, length >>
      cd     == compress(data, h.compression)
      f1     == WriteAt(f, Taken(cd.out, length, tail), h.offset)
      w      == walk(f1, Advance(h.offset, length), h.maxzoom, face, zoom, x, y, TRUE)
      fail(e) == [file |-> f, offset |-> h.offset, err |-> e, at |-> 0, length |-> 0,
                  leaves |-> << >>]
  IN  IF ~cd.ok THEN fail("unsupported")
      ELSE IF tail = -1 THEN fail("range")
      ELSE [file   |-> writeNode(w.file, w.cursor, node),
            offset |-> w.offset,
            err    |-> "none",
            at     |-> node[1],
            length |-> node[2],
            leaves |-> w.leaves]

\* the ten bytes commit() builds; tc is << >> for an omitted tileCompression
HeaderBytes(h, tc, metaLength) ==
  << 83, 50 >> \o LE16(h.version) \o << h.maxzoom >>
     \o << IF tc = << >> THEN h.compression ELSE tc[1] >> \o LE32(metaLength)

\* commit() writing the ten header bytes before it tests the metadata's size
commitHeaderFirst(f, h, metadata, tc) ==
  LET mb == compress(Stringify(metadata), h.compression)
      f1 == WriteAt(f, HeaderBytes(h, tc, Len(mb.out)), 0)
  IN  IF ~mb.ok THEN [file |-> f, err |-> "unsupported"]
      ELSE IF Len(mb.out) > METADATA_SIZE - 10 THEN [file |-> f1, err |-> "too-large"]
      ELSE [file |-> WriteAt(f1, mb.out, 10), err |-> "none"]

\* commit(metadata, tileCompression): [file, err]
commit(f, h, metadata, tc) ==
  LET mb == compress(Stringify(metadata), h.compression)
      f1 == WriteAt(f, HeaderBytes(h, tc, Len(mb.out)), 0)
  IN  IF ~mb.ok THEN [file |-> f, err |-> "unsupported"]
      ELSE IF Len(mb.out) > METADATA_SIZE - 10 THEN [file |-> f, err |-> "too-large"]
      ELSE [file |-> WriteAt(f1, mb.out, 10), err |-> "none"]

----------------------------------------------------------------------------
(* State *)

VARIABLES
  file,       \* the archive file
  handles,    \* the S2TilesStore objects: "W" created the archive, "R" is opened on it later
  ctor,       \* the arguments "W" was constructed with
  log,        \* history: the putTile calls that completed, in order
  committed,  \* history: << >>, or the latest commit call that completed
  last,       \* the latest call and what it returned
  pc          \* the putTile calls in flight, when they run one file operation at a time

vars == << file, handles, ctor, log, committed, last, pc >>

\* the calls that can be in flight together
Calls == {1, 2}

\* a call that is not in flight
Idle ==
  [at |-> "idle", c |-> << >>, data |-> << >>, node |-> << 0, 0 >>, cursor |-> 0,
   depth |-> 0, path |-> << >>, dir |-> << 0, 0 >>, leaf |-> << 0, 0 >>, leaves |-> << >>]

\* what a call returned: err "none" and the value in the field of its type
\* (for commit, meta is the metadata it was called with)
Returned(h, op, c, err) ==
  [h |-> h, op |-> op, c |-> c, err |-> err, bool |-> FALSE, bytes |-> << >>,
   meta |-> 0, undef |-> FALSE, fresh |-> FALSE]

\* new S2TilesStore(path, maxzoom, compression) on a path that does not exist
InitWith(maxzooms, kinds) ==
  /\ file = NewFile(ROOT_SIZE)
  /\ \E mz \in maxzooms, k \in kinds :
       /\ handles = [W |-> NewHandle(mz, k), R |-> NoHandle]
       /\ ctor = [maxzoom |-> mz, compression |-> k]
  /\ log = << >>
  /\ committed = << >>
  /\ last = Returned("W", "new", << >>, "none")
  /\ pc = [k \in Calls |-> Idle]

----------------------------------------------------------------------------
(* Operations *)

\* writer.putTile / writeTileS2 (writeTileWM with face 0)
PutTile(c, data, tail) ==
  LET r == putTile(file, handles["W"], c[1], c[2], c[3], c[4], data, tail)
  IN  /\ file' = r.file
      /\ handles' = [handles EXCEPT !["W"].offset = r.offset]
      /\ log' = IF r.err = "none"
                THEN Append(log, [c |-> c, data |-> data, at |-> r.at,
                                  length |-> r.length, leaves |-> r.leaves])
                ELSE log
      /\ last' = Returned("W", "putTile", c, r.err)
      /\ UNCHANGED << pc, ctor, committed >>

\* writer.commit(metadata, tileCompression)
Commit(metadata, tc) ==
  LET w == handles["W"]
      r == commit(file, w, metadata, tc)
  IN  /\ file' = r.file
      /\ committed' =
           IF r.err = "none"
           THEN << [meta |-> metadata, tc |-> tc, compression |-> w.compression,
                    maxzoom |-> w.maxzoom,
                    plain |-> tc = << >> /\ (committed = << >> \/ committed[1].plain)] >>
           ELSE committed
      /\ last' = [Returned("W", "commit", << >>, r.err) EXCEPT !.meta = metadata]
      /\ UNCHANGED << pc, handles, ctor, log >>

\* new S2TilesStore(path) on the existing archive
OpenReader ==
  /\ handles' = [handles EXCEPT !["R"] = NewHandle(0, Gzip)]
  /\ last' = Returned("R", "new", << >>, "none")
  /\ UNCHANGED << pc, file, ctor, log, committed >>

\* handle.getMetadata()
GetMetadata(h) ==
  LET r == getMetadata(file, handles[h])
  IN  /\ handles[h].open
      /\ handles' = [handles EXCEPT ![h] = r.h]
      /\ last' = [Returned(h, "getMetadata", << >>, r.err) EXCEPT
                    !.meta = IF r.err = "none" THEN r.ret ELSE 0,
                    !.fresh = ~handles[h].isSetup]
      /\ UNCHANGED << pc, file, ctor, log, committed >>

\* handle.getMetadata() on a handle that is not set up, to the `await readAsync`
\* of setup(): #isSetup is TRUE and the header is not read yet
GetMetadataBegin(h) ==
  /\ handles[h].open /\ ~handles[h].isSetup
  /\ handles' = [handles EXCEPT ![h].isSetup = TRUE, ![h].parsing = TRUE]
  /\ UNCHANGED << pc, file, ctor, log, committed, last >>

\* readAsync returns: the rest of setup(), and that getMetadata() returns
GetMetadataEnd(h) ==
  LET r == setup(file, [handles[h] EXCEPT !.isSetup = FALSE, !.parsing = FALSE])
  IN  /\ handles[h].parsing
      /\ handles' = [handles EXCEPT ![h] = r.h]
      /\ last' = [Returned(h, "getMetadata", << >>, r.err) EXCEPT
                    !.meta = IF r.err = "none" THEN r.h.metadata ELSE 0,
                    !.fresh = TRUE]
      /\ UNCHANGED << pc, file, ctor, log, committed >>

\* handle.hasTileS2(face, zoom, x, y) (hasTileWM with face 0)
HasTile(h, c) ==
  LET r == hasTileS2(file, handles[h], c[1], c[2], c[3], c[4])
  IN  /\ handles[h].open
      /\ handles' = [handles EXCEPT ![h] = r.h]
      /\ last' = [Returned(h, "hasTile", c, r.err) EXCEPT
                    !.bool = r.ret, !.fresh = ~handles[h].isSetup]
      /\ file' = r.file
      /\ UNCHANGED << pc, ctor, log, committed >>

\* handle.getTileS2(face, zoom, x, y) (getTileWM with face 0)
GetTile(h, c) ==
  LET r == getTileS2(file, handles[h], c[1], c[2], c[3], c[4])
  IN  /\ handles[h].open
      /\ handles' = [handles EXCEPT ![h] = r.h]
      /\ last' = [Returned(h, "getTile", c, r.err) EXCEPT
                    !.bytes = r.ret, !.undef = r.undef, !.fresh = ~handles[h].isSetup]
      /\ file' = r.file
      /\ UNCHANGED << pc, ctor, log, committed >>

\* new S2TilesStore(path, maxzoom, compression) on the existing archive, with
\* the arguments the archive was created with
OpenWriter ==
  /\ handles' = [handles EXCEPT !["R"] = NewHandle(ctor.maxzoom, ctor.compression)]
  /\ last' = Returned("R", "new", << >>, "none")
  /\ UNCHANGED << pc, file, ctor, log, committed >>

\* handle.putTile on the handle opened later; log keeps the creating handle's puts
PutTileOn(h, c, data, tail) ==
  LET r == putTile(file, handles[h], c[1], c[2], c[3], c[4], data, tail)
  IN  /\ handles[h].open
      /\ file' = r.file
      /\ handles' = [handles EXCEPT ![h].offset = r.offset]
      /\ last' = Returned(h, "putTile", c, r.err)
      /\ UNCHANGED << pc, ctor, log, committed >>

\* putTile, one file operation at a time, for the calls of Calls; pc[k] is call
\* k.  pc[k].at names the operation that has completed: "begun" the first lines
\* up to `await compress`, "payload" the write of the payload, "read" the read
\* of a leaf slot, "filled" the write of a new leaf directory's zeros, "pointed"
\* the write of the pointer to it; at "node" #walk has returned the slot of the
\* tile's node.  pc[k].dir is the directory (position, size) that holds the
\* slot pc[k].cursor.

\* one pass of #walk's loop without the return at the last level of maxzoom
IterateNoShortcut(p, maxzoom) ==
  LET shift == Head(p.path)
      rest  == Tail(p.path)
      cur   == p.cursor + shift * NODE_SIZE
      moved == [p EXCEPT !.cursor = cur, !.depth = p.depth + 1, !.path = rest]
  IN  IF rest = << >> THEN [moved EXCEPT !.at = "node"]
      ELSE [moved EXCEPT !.at = "read"]

\* one pass of #walk's loop up to its next file operation
Iterate(p, maxzoom) ==
  LET shift == Head(p.path)
      rest  == Tail(p.path)
      cur   == p.cursor + shift * NODE_SIZE
      moved == [p EXCEPT !.cursor = cur, !.depth = p.depth + 1, !.path = rest]
  IN  IF rest = << >> THEN [moved EXCEPT !.at = "node"]
      ELSE IF maxzoom % 5 = 0 /\ Len(rest) = 1 /\ p.c[2] = maxzoom /\ rest[1] = 0
      THEN [moved EXCEPT !.at = "node"]
      ELSE [moved EXCEPT !.at = "read"]

\* putTile up to `await compress`: node = [this.offset, length] is taken
PutBegin(k, c, data) ==
  /\ pc[k].at = "idle"
  /\ pc' = [pc EXCEPT ![k] = [Idle EXCEPT !.at = "begun", !.c = c, !.data = data,
                                          !.node = << handles["W"].offset, Len(data) >>]]
  /\ UNCHANGED << file, handles, ctor, log, committed, last >>

\* compress returns, and the write of the payload at this.offset
PutPayload(k, tail) ==
  LET w      == handles["W"]
      cd     == compress(pc[k].data, w.compression)
      failed == ~cd.ok \/ tail = -1
  IN  /\ pc[k].at = "begun"
      /\ file' = IF failed THEN file
                 ELSE WriteAt(file, Taken(cd.out, pc[k].node[2], tail), w.offset)
      /\ pc' = [pc EXCEPT ![k] = IF failed THEN Idle ELSE [pc[k] EXCEPT !.at = "payload"]]
      /\ last' = IF failed
                 THEN Returned("W", "putTile", pc[k].c,
                               IF cd.ok THEN "range" ELSE "unsupported")
                 ELSE last
      /\ UNCHANGED << handles, ctor, log, committed >>

\* putTile up to the end of its write of the payload
PutStart(k, c, data, tail) ==
  LET w      == handles["W"]
      length == Len(data)
      cd     == compress(data, w.compression)
      failed == ~cd.ok \/ tail = -1
  IN  /\ pc[k].at = "idle"
      /\ file' = IF failed THEN file ELSE WriteAt(file, Taken(cd.out, length, tail), w.offset)
      /\ pc' = [pc EXCEPT ![k] =
                  IF failed THEN Idle
                  ELSE [Idle EXCEPT !.at = "payload", !.c = c, !.data = data,
                                    !.node = << w.offset, length >>]]
      /\ last' = IF failed
                 THEN Returned("W", "putTile", c, IF cd.ok THEN "range" ELSE "unsupported")
                 ELSE last
      /\ UNCHANGED << handles, ctor, log, committed >>

\* this.offset += length, and #walk up to its first file operation
PutWalk(k) ==
  LET w     == handles["W"]
      root  == METADATA_SIZE + pc[k].c[1] * DIR_SIZE
      start == [pc[k] EXCEPT !.cursor = root, !.depth = 0, !.dir = << root, DIR_SIZE >>,
                             !.path = getS2TilePath(pc[k].c[2], pc[k].c[3], pc[k].c[4])]
  IN  /\ pc[k].at = "payload"
      /\ handles' = [handles EXCEPT !["W"].offset = Advance(w.offset, pc[k].node[2])]
      /\ pc' = [pc EXCEPT ![k] = Iterate(start, w.maxzoom)]
      /\ UNCHANGED << file, ctor, log, committed, last >>

\* the slot read holds a leaf: move to where it points, and on to the next
\* file operation
PutFollow(k) ==
  LET rec  == ReadAt(file, pc[k].cursor, NODE_SIZE)
      leaf == readUInt48LE(rec)
  IN  /\ pc[k].at = "read"
      /\ leaf # 0
      /\ pc' = [pc EXCEPT ![k] =
                  Iterate([pc[k] EXCEPT !.cursor = leaf, !.dir = << leaf, FromLE32(rec, 6) >>],
                          handles["W"].maxzoom)]
      /\ UNCHANGED << file, handles, ctor, log, committed, last >>

\* the slot read is empty: #createLeafDir up to the end of its write of zeros.
\* A _buildDirSize call that does not return (-1) leaves the call where it is
PutCreate(k) ==
  LET w       == handles["W"]
      leaf    == readUInt48LE(ReadAt(file, pc[k].cursor, NODE_SIZE))
      dirSize == buildDirSize(pc[k].depth * 5, w.maxzoom)
  IN  /\ pc[k].at = "read"
      /\ leaf = 0
      /\ dirSize >= 0
      /\ file' = ZeroFill(file, w.offset, dirSize)
      /\ pc' = [pc EXCEPT ![k] = [pc[k] EXCEPT !.at = "filled",
                                               !.leaf = << w.offset, dirSize >>]]
      /\ UNCHANGED << handles, ctor, log, committed, last >>

\* this.offset += dirSize, and the write of the pointer to the new directory
PutPointer(k) ==
  /\ pc[k].at = "filled"
  /\ handles' = [handles EXCEPT !["W"].offset = Advance(handles["W"].offset, pc[k].leaf[2])]
  /\ file' = writeNode(file, pc[k].cursor, pc[k].leaf)
  /\ pc' = [pc EXCEPT ![k] =
              [pc[k] EXCEPT !.at = "pointed",
                            !.leaves = Append(pc[k].leaves,
                                              [off |-> pc[k].leaf[1], size |-> pc[k].leaf[2],
                                               slot |-> pc[k].cursor])]]
  /\ UNCHANGED << ctor, log, committed, last >>

\* #createLeafDir returns the new directory: on to the next file operation
PutEnter(k) ==
  /\ pc[k].at = "pointed"
  /\ pc' = [pc EXCEPT ![k] =
              Iterate([pc[k] EXCEPT !.cursor = pc[k].leaf[1], !.dir = pc[k].leaf],
                      handles["W"].maxzoom)]
  /\ UNCHANGED << file, handles, ctor, log, committed, last >>

\* #putNodeInDir's write of the node, and putTile returns
PutNode(k) ==
  /\ pc[k].at = "node"
  /\ file' = writeNode(file, pc[k].cursor, pc[k].node)
  /\ log' = Append(log, [c |-> pc[k].c, data |-> pc[k].data, at |-> pc[k].node[1],
                         length |-> pc[k].node[2], leaves |-> pc[k].leaves])
  /\ last' = Returned("W", "putTile", pc[k].c, "none")
  /\ pc' = [pc EXCEPT ![k] = Idle]
  /\ UNCHANGED << handles, ctor, committed >>

\* #writeNode's buffer built on its own for node = [offset, length]: the ten
\* bytes are in last.bytes, the node (as two pairs) in last.c
NodeBufOf(offset, length) ==
  /\ last' = [Returned("W", "#writeNode", offset \o length, "none") EXCEPT
                !.bytes = nodeBuf(offset, length)]
  /\ UNCHANGED << pc, file, handles, ctor, log, committed >>

\* getS2TilePath(zoom, x, y) called on its own: the path is in last.bytes
PathOf(zoom, x, y) ==
  /\ last' = [Returned("W", "getS2TilePath", << 0, zoom, x, y >>, "none") EXCEPT
                !.bytes = getS2TilePath(zoom, x, y)]
  /\ UNCHANGED << pc, file, handles, ctor, log, committed >>

\* _buildDirSize(depth, maxzoom) called on its own: the size is in last.meta,
\* and err is "no-return" for a call whose loop does not end
DirSizeOf(depth, maxzoom) ==
  LET r == buildDirSize(depth, maxzoom)
  IN  /\ last' = [Returned("W", "_buildDirSize", << depth, maxzoom >>,
                            IF r < 0 THEN "no-return" ELSE "none") EXCEPT !.meta = r]
      /\ UNCHANGED << pc, file, handles, ctor, log, committed >>

----------------------------------------------------------------------------
(* Inputs *)

\* tile coordinates << face, zoom, x, y >> in range for maxzoom
InRange(c, maxzoom) ==
  /\ c[1] \in 0..5 /\ c[2] \in 0..maxzoom
  /\ c[3] \in 0..(2 ^ c[2] - 1) /\ c[4] \in 0..(2 ^ c[2] - 1)

\* the tiles written in Spec, << coordinate, payload >>: a payload that is
\* empty, one the codec lengthens and one it shortens; a tile below zoom 5 on
\* face 1, and two tiles that share a leaf directory
Tiles(maxzoom) ==
  {t \in { << << 1, 1, 0, 1 >>, << >> >>,
           << << 1, 1, 0, 1 >>, << 1 >> >>,
           << << 0, 5, 22, 9 >>, << 2, 2, 2, 2 >> >>,
           << << 0, 9, 22, 9 >>, << 1 >> >>,
           << << 0, 9, 22, 9 >>, << 2, 2, 2, 2 >> >> } : InRange(t[1], maxzoom)}

\* the coordinates read in Spec: those of Tiles, and one whose leaf directory
\* no tile of Tiles allocates
Coords(maxzoom) ==
  {c \in { << 1, 1, 0, 1 >>, << 0, 5, 22, 9 >>, << 0, 9, 22, 9 >>, << 2, 5, 0, 0 >> } :
     InRange(c, maxzoom)}

\* the tiles written in SpecWrite: those of the test 'S2Tiles - Buffer Writer - WM'
\* ("hello world" at 0/0/0 and 1/0/1, "hello world 2" at 9/22/9), an empty
\* tile next to the last, a second payload for 0/0/0 and a tile at zoom 10
Hello  == << 104, 101, 108, 108, 111, 32, 119, 111, 114, 108, 100 >>
Hello2 == Hello \o << 32, 50 >>
TilesW(maxzoom) ==
  {t \in { << << 0, 0, 0, 0 >>, Hello >>,
           << << 0, 1, 0, 1 >>, Hello >>,
           << << 0, 9, 22, 9 >>, Hello2 >>,
           << << 0, 5, 22, 9 >>, << >> >>,
           << << 0, 0, 0, 0 >>, Hello2 >>,
           << << 1, 10, 513, 513 >>, Hello >> } : InRange(t[1], maxzoom)}

\* the tiles written in SpecCommit: in the root directory of face 0 (its first
\* slot is the byte after the header region) and of face 5
TilesC ==
  { << << 0, 0, 0, 0 >>, Hello >>,
    << << 5, 4, 15, 15 >>, << 7 >> >> }

\* metadata whose JSON text has METADATA_SIZE - 10 bytes, the most that fits
\* the header region, and metadata one byte longer
LargestMeta == METADATA_SIZE - 10 - 8
TooLargeMeta == LargestMeta + 1

\* the tiles written in SpecSteps: in a root directory, in a leaf directory, an
\* empty tile at zoom 5, a tile at zoom 10 on face 1, and one on face 5 whose
\* payload is a run of equal bytes
TilesS(maxzoom) ==
  {t \in { << << 0, 0, 0, 0 >>, Hello >>,
           << << 0, 9, 22, 9 >>, Hello2 >>,
           << << 0, 5, 22, 9 >>, << >> >>,
           << << 1, 10, 513, 513 >>, Hello >>,
           << << 5, 5, 31, 31 >>, << 2, 2, 2, 2 >> >> } : InRange(t[1], maxzoom)}

\* the tiles written in SpecReads
TilesQ(maxzoom) ==
  {t \in { << << 0, 0, 0, 0 >>, Hello >>,
           << << 0, 5, 22, 9 >>, << 7 >> >>,
           << << 0, 9, 22, 9 >>, Hello2 >> } : InRange(t[1], maxzoom)}

\* the coordinates read in SpecReads: written ones, one whose leaf directory is
\* missing, one deeper than maxzoom, and two with x or y beyond 2^zoom (the
\* second indexes past the root directories)
CoordsAny ==
  { << 0, 0, 0, 0 >>, << 0, 9, 22, 9 >>, << 2, 5, 0, 0 >>, << 1, 10, 513, 513 >>,
    << 0, 0, 5, 0 >>, << 5, 5, 31, 40 >> }

\* the tiles written in SpecTerm: at every zoom of the archive, the first tile
\* of face 0 and the last tile of face 5
TilesT(maxzoom) ==
  {<< << 0, zoom, 0, 0 >>, << 7 >> >> : zoom \in 0..maxzoom}
    \cup {<< << 5, zoom, 2 ^ zoom - 1, 2 ^ zoom - 1 >>, << 7 >> >> : zoom \in 0..maxzoom}

\* the tiles written in SpecRewrite: two payloads for a slot of a root, of a
\* leaf directory, and for the slot the shortcut returns at maxzoom 10
TilesD(maxzoom) ==
  {t \in { << 0, 0, 0, 0 >>, << 0, 9, 22, 9 >>, << 1, 10, 513, 513 >> } \X { Hello, << 7 >> } :
     InRange(t[1], maxzoom)}

\* offsets below 2^48 and lengths below 2^32, as pairs: the least and the
\* greatest, the first cursor of an archive, and values around 2^16, 2^24, 2^32
Offsets48 ==
  {<< hi, lo >> : hi \in {0, 1, 255, 256, 65536, 2 ^ 24 - 1},
                  lo \in {0, 1, 65535, 65536, ROOT_SIZE, 2 ^ 24 - 1}}
Lengths32 ==
  {<< hi, lo >> : hi \in {0, 1, 255}, lo \in {0, 11, 65536, 2 ^ 24 - 1}}

\* the deepest zoom of the format
MaxZoom == 30

\* tile columns and rows of a zoom: the first, the last, and two in between
Samples(zoom) == {0, (2 ^ zoom) \div 3, (2 ^ zoom) \div 2, 2 ^ zoom - 1}

\* an omitted tileCompression, or one of the kinds
TileCompressions == { << >>, << None >>, << Gzip >>, << Brotli >> }

\* the tiles written through the handle opened later
TilesR(maxzoom) ==
  {t \in { << << 0, 1, 1, 1 >>, << 7, 7, 7 >> >>,
           << << 0, 9, 22, 9 >>, << 7 >> >>,
           << << 3, 5, 1, 1 >>, << 7, 7 >> >> } : InRange(t[1], maxzoom)}

----------------------------------------------------------------------------
(* Specifications *)

\* a writer, and readers opened on its archive
Init == InitWith({5, 9}, {None, Gzip})

Next ==
  \/ /\ Len(log) < MaxPuts
     /\ \E t \in Tiles(ctor.maxzoom) :
          \E tail \in Tails(compress(t[2], handles["W"].compression).out, Len(t[2])) :
            PutTile(t[1], t[2], tail)
  \/ Commit(1, << >>)
  \/ OpenReader
  \/ GetMetadata("R")
  \/ \E c \in Coords(ctor.maxzoom) : HasTile("R", c)
  \/ \E c \in Coords(ctor.maxzoom) : GetTile("R", c)

Spec == Init /\ [][Next]_vars

\* the writer alone, without compression
InitWrite == InitWith({5, 9, 10}, {None})

NextWrite ==
  \/ /\ Len(log) < MaxPutsW
     /\ \E t \in TilesW(ctor.maxzoom) : PutTile(t[1], t[2], 0)
  \/ \E m \in Metas : Commit(m, << >>)

SpecWrite == InitWrite /\ [][NextWrite]_vars

\* the header: commits, and getMetadata on the writer and on readers
InitHeader == InitWith({0, 9}, {None, Gzip, Brotli})

NextHeader ==
  \/ \E m \in Metas, tc \in TileCompressions : Commit(m, tc)
  \/ OpenReader
  \/ \E h \in {"W", "R"} : GetMetadata(h)

SpecHeader == InitHeader /\ [][NextHeader]_vars

\* a writer, then handles opened on its archive that write their first tile
InitReopen == InitWith({9}, {None})

NextReopen ==
  \/ /\ Len(log) < MaxPuts
     /\ \E t \in TilesW(ctor.maxzoom) : PutTile(t[1], t[2], 0)
  \/ Commit(1, << >>)
  \/ OpenWriter
  \/ /\ handles["R"].offset = ROOT_SIZE
     /\ \E t \in TilesR(ctor.maxzoom) : PutTileOn("R", t[1], t[2], 0)

SpecReopen == InitReopen /\ [][NextReopen]_vars

\* archives with and without a valid header, and the reads of handles opened
\* on them; commit(undefined) leaves a header whose metadata length is 0
InitErrors == InitWith({9}, {None, Gzip})

NextErrors ==
  \/ /\ Len(log) < MaxPuts
     /\ \E t \in Tiles(ctor.maxzoom) : PutTile(t[1], t[2], 0)
  \/ \E m \in {0, 1} : Commit(m, << >>)
  \/ OpenReader
  \/ GetMetadata("R")
  \/ \E c \in Coords(ctor.maxzoom) : HasTile("R", c)
  \/ \E c \in Coords(ctor.maxzoom) : GetTile("R", c)

SpecErrors == InitErrors /\ [][NextErrors]_vars

\* the writer, committing metadata up to and beyond the size of the header
\* region; the large metadata are committed last, and without compression
InitCommit == InitWith({5, 9}, {None, Gzip})

LargeCommitted == IF committed = << >> THEN FALSE ELSE committed[1].meta >= 10

NextCommit ==
  \/ /\ Len(log) < MaxPuts /\ ~LargeCommitted
     /\ \E t \in TilesC : PutTile(t[1], t[2], 0)
  \/ /\ ~LargeCommitted
     /\ Commit(1, << >>)
  \/ /\ ctor.compression = None
     /\ \E m \in {LargestMeta, TooLargeMeta} : Commit(m, << >>)

SpecCommit == InitCommit /\ [][NextCommit]_vars

\* a writer whose putTile calls run one file operation at a time
InitSteps == InitWith({5, 9, 10}, {None, Gzip})

NextSteps ==
  \/ /\ Len(log) < MaxPuts
     /\ \E t \in TilesS(ctor.maxzoom) :
          \E tail \in Tails(compress(t[2], handles["W"].compression).out, Len(t[2])) :
            PutStart(1, t[1], t[2], tail)
  \/ PutWalk(1)
  \/ PutFollow(1)
  \/ PutCreate(1)
  \/ PutPointer(1)
  \/ PutEnter(1)
  \/ PutNode(1)

SpecSteps == InitSteps /\ [][NextSteps]_vars

\* reads of any coordinate through a reader's handle, and through the writer's
\* after a commit, on archives with and without tiles and a header
InitReads == InitWith({9}, {None, Gzip})

NextReads ==
  \/ /\ Len(log) < MaxPuts
     /\ \E t \in TilesQ(ctor.maxzoom) : PutTile(t[1], t[2], 0)
  \/ Commit(1, << >>)
  \/ OpenReader
  \/ \E c \in CoordsAny : HasTile("R", c)
  \/ \E c \in CoordsAny : GetTile("R", c)
  \/ /\ last.op = "commit"
     /\ \E c \in CoordsAny : GetTile("W", c)

SpecReads == InitReads /\ [][NextReads]_vars

\* two putTile calls started on the writer's handle without awaiting the
\* first: each runs up to its next await whenever the other is suspended
InitRace == InitWith({9}, {None})

Started == Len(log) + Cardinality({k \in Calls : pc[k].at # "idle"})

NextRace ==
  \/ /\ Started < MaxPuts
     /\ \E k \in Calls, t \in TilesQ(ctor.maxzoom) : PutBegin(k, t[1], t[2])
  \/ \E k \in Calls : PutPayload(k, 0)
  \/ \E k \in Calls : PutWalk(k)
  \/ \E k \in Calls : PutFollow(k)
  \/ \E k \in Calls : PutCreate(k)
  \/ \E k \in Calls : PutPointer(k)
  \/ \E k \in Calls : PutEnter(k)
  \/ \E k \in Calls : PutNode(k)

SpecRace == InitRace /\ [][NextRace]_vars

\* a reader on a committed archive whose first getMetadata() is suspended in
\* setup() while getMetadata and hasTile calls are started on the handle
InitLoad == InitWith({5, 9}, {None, Gzip})

NextLoad ==
  \/ /\ Len(log) < MaxPuts /\ committed = << >>
     /\ \E t \in TilesQ(ctor.maxzoom) : PutTile(t[1], t[2], 0)
  \/ /\ committed = << >>
     /\ Commit(1, << >>)
  \/ /\ committed # << >>
     /\ OpenReader
  \/ GetMetadataBegin("R")
  \/ GetMetadataEnd("R")
  \/ GetMetadata("R")
  \/ \E c \in Coords(ctor.maxzoom) : HasTile("R", c)
  \/ /\ ~handles["R"].parsing
     /\ \E c \in Coords(ctor.maxzoom) : GetTile("R", c)

SpecLoad == InitLoad /\ [][NextLoad]_vars

\* a writer of every maxzoom that writes a tile of any zoom, and writes it
\* again; a suspended call is resumed when its file operation completes
InitTerm == InitWith(0..MaxZoom, {None})

Resume ==
  \/ PutWalk(1)
  \/ PutFollow(1)
  \/ PutCreate(1)
  \/ PutPointer(1)
  \/ PutEnter(1)
  \/ PutNode(1)

NextTerm ==
  \/ /\ Len(log) < MaxPuts
     /\ \E t \in TilesT(ctor.maxzoom) :
          /\ IF log = << >> THEN TRUE ELSE t[1] = log[1].c
          /\ PutStart(1, t[1], t[2], 0)
  \/ Resume

SpecTerm == InitTerm /\ [][NextTerm]_vars /\ WF_vars(Resume)

\* a writer that writes coordinates more than once
InitRewrite == InitWith({9, 10}, {None})

NextRewrite ==
  \/ /\ Len(log) < MaxPutsW
     /\ \E t \in TilesD(ctor.maxzoom) : PutTile(t[1], t[2], 0)
  \/ Commit(1, << >>)

SpecRewrite == InitRewrite /\ [][NextRewrite]_vars

\* the node record codec called on its own
InitCodec == InitWith({9}, {None})

NextCodec == \E offset \in Offsets48, length \in Lengths32 : NodeBufOf(offset, length)

SpecCodec == InitCodec /\ [][NextCodec]_vars

\* the functions of the module called on their own
InitPure == InitWith({9}, {None})

NextPure ==
  \/ \E zoom \in 0..MaxZoom : \E x, y \in Samples(zoom) : PathOf(zoom, x, y)
  \/ \E depth, maxzoom \in 0..MaxZoom : DirSizeOf(depth, maxzoom)

SpecPure == InitPure /\ [][NextPure]_vars

\* writers constructed with each kind that has no codec, and without compression
InitKinds == InitWith({5, 9}, {Unknown, None, Zstd})

NextKinds ==
  \/ /\ Len(log) < MaxPuts
     /\ \E t \in TilesW(ctor.maxzoom) : PutTile(t[1], t[2], 0)
  \/ \E m \in Metas, tc \in { << >>, << None >> } : Commit(m, tc)

SpecKinds == InitKinds /\ [][NextKinds]_vars

----------------------------------------------------------------------------
(* Properties *)

\* the completed putTile calls for coordinate c, as indices of log
PutsAt(c) == {i \in 1..Len(log) : log[i].c = c}
Written(c) == PutsAt(c) # {}
\* the payload of the latest putTile at c
PayloadAt(c) == log[CHOOSE i \in PutsAt(c) : \A j \in PutsAt(c) : j <= i].data
\* the tiles were written at pairwise distinct coordinates
DistinctCoords == \A i, j \in 1..Len(log) : log[i].c = log[j].c => i = j
\* the latest call ran `op` on a handle opened on the committed archive, and
\* parsed the header in that call
FreshRead(op) ==
  last.op = op /\ last.h = "R" /\ last.fresh /\ committed # << >>

\* C1: with Compression.None, tiles written at pairwise distinct coordinates on
\* the creating handle and committed are returned byte for byte by getTileS2 on
\* a fresh handle.
C1_RoundTripNone ==
  (FreshRead("getTile") /\ ctor.compression = None /\ DistinctCoords /\ Written(last.c))
    => (last.err = "none" /\ ~last.undef /\ last.bytes = PayloadAt(last.c))

C1_Witness ==
  /\ FreshRead("getTile") /\ ctor.compression = None /\ DistinctCoords
  /\ Len(log) = 2 /\ last.c = log[1].c /\ last.c[2] >= 5 /\ log[1].leaves # << >>
  /\ last.bytes = << 2, 2, 2, 2 >>

\* C2: on a committed archive hasTileS2 returns false for every in-range
\* coordinate that was never written, also when the leaf directory on the way
\* to it was never allocated.
C2_AbsentHasTile ==
  (FreshRead("hasTile") /\ ~Written(last.c)) => (last.err = "none" /\ last.bool = FALSE)

\* C3: on a committed archive getTileS2 returns undefined (no bytes, no error)
\* for every in-range coordinate that was never written.
C3_AbsentGetTile ==
  (FreshRead("getTile") /\ ~Written(last.c)) => (last.err = "none" /\ last.undef)

\* C4, as claimed: after putTile(c, bytes) and a commit, hasTile(c) is true for
\* every payload, the empty one included (whose node record would have to read
\* as present).
C4_PresenceAnyPayload ==
  (FreshRead("hasTile") /\ Written(last.c)) => (last.err = "none" /\ last.bool)

\* C4, amended: after putTile(c, bytes) and a commit, hasTile(c) is true exactly
\* when the latest payload written at c is not empty.
C4_PresenceNonEmpty ==
  (FreshRead("hasTile") /\ Written(last.c))
    => (last.err = "none" /\ (last.bool <=> PayloadAt(last.c) # << >>))

C4_Witness ==
  /\ FreshRead("hasTile") /\ Written(last.c) /\ last.bool
  /\ last.c[2] >= 5 /\ Len(log) = 2 /\ PayloadAt(log[2].c) = << >> /\ log[2].at # 0

\* C5: with Gzip or Brotli, a tile written with putTile is returned byte for
\* byte by getTile on a fresh handle of the committed archive (the bytes stored
\* and the length recorded are what decompress needs).
C5_RoundTripCodec ==
  (FreshRead("getTile") /\ ctor.compression \in {Gzip, Brotli} /\ DistinctCoords
     /\ Written(last.c))
    => (last.err = "none" /\ ~last.undef /\ last.bytes = PayloadAt(last.c))

----------------------------------------------------------------------------
(* Properties of the header *)

\* C6: after commit(metadata, tileCompression?) a fresh handle reads back
\* version 1, the writer's maxzoom, the compression kind the writer compresses
\* with, and the committed metadata, whatever tileCompression was.
C6_HeaderStability ==
  FreshRead("getMetadata")
    => /\ last.err = "none"
       /\ last.meta = committed[1].meta
       /\ handles["R"].version = 1
       /\ handles["R"].maxzoom = committed[1].maxzoom
       /\ handles["R"].compression = committed[1].compression

\* C7: after any sequence of commit(metadata) calls getMetadata returns the
\* metadata of the latest commit, on a fresh handle and on the committing handle
\* that has loaded the metadata of an earlier commit.
C7_LatestCommitWins ==
  /\ (FreshRead("getMetadata") /\ committed[1].plain)
       => (last.err = "none" /\ last.meta = committed[1].meta)
  /\ (last.op = "getMetadata" /\ last.h = "W" /\ committed # << >> /\ committed[1].plain
        /\ handles["W"].metadata # 0)
       => (last.err = "none" /\ last.meta = committed[1].meta)

----------------------------------------------------------------------------
(* Properties of the layout *)

\* the size of the six root directories in the format document, 4.2
DOC_ROOT_DIR_SIZE == 163800

\* C8: a new archive is zero-filled to 131,072 + 163,800 = 294,872 bytes, the
\* append cursor starts there, and the file is never shorter.
C8_RootRegion ==
  /\ file.len >= METADATA_SIZE + DOC_ROOT_DIR_SIZE
  /\ handles["W"].offset >= METADATA_SIZE + DOC_ROOT_DIR_SIZE
  /\ (log = << >> /\ committed = << >>)
       => /\ file.len = METADATA_SIZE + DOC_ROOT_DIR_SIZE
          /\ file.data = NoBytes
          /\ handles["W"].offset = METADATA_SIZE + DOC_ROOT_DIR_SIZE

RECURSIVE SumSizes(_)
SumSizes(leaves) == IF leaves = << >> THEN 0 ELSE Head(leaves).size + SumSizes(Tail(leaves))

\* the payload bytes and the leaf directory bytes of the puts log[1..n]
RECURSIVE Appended(_)
Appended(n) ==
  IF n = 0 THEN 0 ELSE Len(log[n].data) + SumSizes(log[n].leaves) + Appended(n - 1)

\* the tiles of the test 'S2Tiles - Buffer Writer - WM' and no other were written
WMScenario ==
  /\ ctor.maxzoom = 9 /\ Len(log) = 3
  /\ {<< log[i].c, log[i].data >> : i \in 1..Len(log)} =
       { << << 0, 0, 0, 0 >>, Hello >>, << << 0, 1, 0, 1 >>, Hello >>,
         << << 0, 9, 22, 9 >>, Hello2 >> }

\* C9: on one handle with Compression.None the file length is the append cursor,
\* which is the initial cursor plus all payload lengths plus the sizes of all
\* leaf directories allocated; the test's three tiles give 216,417 bytes.
C9_FileLength ==
  /\ file.len = handles["W"].offset
  /\ handles["W"].offset = ROOT_SIZE + Appended(Len(log))
  /\ WMScenario => file.len = 216417

C9_Witness == WMScenario /\ committed # << >> /\ log[3].c = << 0, 0, 0, 0 >>

\* C10: on one handle with Compression.None the bytes of every tile payload
\* written stay as written through every later putTile and commit.
C10_AppendOnly ==
  \A i \in 1..Len(log) : ReadAt(file, log[i].at, log[i].length) = log[i].data

C10_Witness ==
  /\ Len(log) = 3 /\ committed # << >>
  /\ log[1].data # << >> /\ log[2].leaves # << >> /\ log[3].c = log[1].c

----------------------------------------------------------------------------
(* Properties of a second handle *)

\* C11: when a handle is opened on an archive that holds tile payloads and that
\* handle writes tiles, the bytes of every payload written earlier stay as
\* written (so that the earlier tiles still read back).
C11_AppendOnlyAcross ==
  \A i \in 1..Len(log) : ReadAt(file, log[i].at, log[i].length) = log[i].data

----------------------------------------------------------------------------
(* Properties of header validation *)

ReadOps == {"getMetadata", "hasTile", "getTile"}
\* the latest call is the first read operation of its handle
FirstRead == last.op \in ReadOps /\ last.fresh
\* the file starts with 'S2'
MagicValid == FromLE16(ReadAt(file, 0, 2), 0) = 12883
\* the metadata length field of the header
MetaLength == FromLE32(ReadAt(file, 6, 4), 0)

\* C12: the first read operation on a handle fails with the bad-magic error when
\* the file does not start with 'S2' (as on an archive written but never
\* committed), and with the missing-metadata error when the magic is valid and
\* the metadata length field is 0.
C12_HeaderErrors ==
  FirstRead
    => /\ ~MagicValid => last.err = "bad-magic"
       /\ committed = << >> => last.err = "bad-magic"
       /\ (MagicValid /\ MetaLength = 0) => last.err = "missing-metadata"

C12_Witness ==
  /\ FirstRead /\ last.op = "hasTile" /\ last.err = "missing-metadata"
  /\ log # << >> /\ MagicValid /\ MetaLength = 0

\* C13: on a handle whose header was never parsed successfully every
\* getMetadata, hasTile and getTile call fails; none returns a result.
C13_ErrorsPersist ==
  (last.op \in ReadOps /\ handles[last.h].metadata = 0) => last.err # "none"

----------------------------------------------------------------------------
(* Properties of commit *)

\* the bytes at 131,072 and beyond are the same in f and g
SameBeyondHeader(f, g) ==
  /\ f.len = g.len
  /\ \A p \in DOMAIN f.data \cup DOMAIN g.data : p >= 131072 => Byte(f, p) = Byte(g, p)

\* C14: commit fails with the metadata-too-large error exactly when the
\* compressed metadata has more than 131,062 bytes, a failed commit writes
\* nothing, and no commit changes a byte at 131,072 or beyond, the file length
\* or the append cursor.
C14_CommitConfined ==
  [][last'.op = "commit"
       => /\ (last'.err = "too-large")
               <=> (Len(compress(Stringify(last'.meta), handles["W"].compression).out)
                      > 131062)
          /\ (last'.err # "none") => (file' = file)
          /\ SameBeyondHeader(file, file')
          /\ handles' = handles]_vars

C14_Witness ==
  /\ last.op = "commit" /\ last.err = "too-large" /\ last.meta = TooLargeMeta
  /\ Len(log) = 2 /\ committed # << >> /\ Byte(file, METADATA_SIZE) # 0

\* C15: a writer configured with Compression.Unknown or Compression.Zstd fails
\* every putTile and commit with the unsupported-compression error and leaves
\* the file and the append cursor as they were; with Compression.None compress
\* and decompress return their input
C15_Unsupported ==
  /\ ctor.compression \in {Unknown, Zstd}
       => /\ file = NewFile(ROOT_SIZE)
          /\ handles["W"].offset = ROOT_SIZE
          /\ last.op \in {"putTile", "commit"} => last.err = "unsupported"
  /\ ctor.compression = None
       => \A i \in 1..Len(log) :
            /\ compress(log[i].data, None) = [ok |-> TRUE, out |-> log[i].data]
            /\ decompress(log[i].data, None) = [ok |-> TRUE, out |-> log[i].data]
            /\ ReadAt(file, log[i].at, log[i].length) = log[i].data

C15_Witness ==
  /\ ctor.compression = Unknown /\ last.op = "putTile" /\ last.err = "unsupported"
  /\ last.c = << 0, 5, 22, 9 >>

PathCall == last.op = "getS2TilePath"
PathInRange == \A i \in 1..Len(last.bytes) : last.bytes[i] >= 0 /\ last.bytes[i] < 1365
CeilDiv5(zoom) == (zoom + 4) \div 5

\* C16 (as stated): the path of (zoom, x, y) has ceil(zoom / 5) + 1 elements
\* when zoom > 0 and is the single index 0 when zoom = 0, and every element is
\* in [0, 1365)
C16_PathLengthCeil ==
  PathCall
    => /\ Len(last.bytes) = IF last.c[2] = 0 THEN 1 ELSE CeilDiv5(last.c[2]) + 1
       /\ last.c[2] = 0 => last.bytes = << 0 >>
       /\ PathInRange

\* C16 (amended): the path of (zoom, x, y) has floor(zoom / 5) + 1 elements,
\* is the single index 0 when zoom = 0, and every element is in [0, 1365)
C16_PathLength ==
  PathCall
    => /\ Len(last.bytes) = (last.c[2] \div 5) + 1
       /\ last.c[2] = 0 => last.bytes = << 0 >>
       /\ PathInRange

C16_Witness ==
  /\ PathCall /\ last.c = << 0, 13, 2 ^ 13 - 1, (2 ^ 13) \div 3 >>
  /\ Len(last.bytes) = 3

\* v >> n and the sum of 4^k for k < r
Shr(v, n) == v \div (2 ^ n)
RECURSIVE Sum4(_)
Sum4(r) == IF r = 0 THEN 0 ELSE 4 ^ (r - 1) + Sum4(r - 1)

\* C17: the path of (zoom, x, y) is the one GetTilePath of the format document
\* gives; with n = floor(zoom / 5) and r = zoom - 5n its i-th element, i < n,
\* is 341 + ((y >> 5i) & 31) * 32 + ((x >> 5i) & 31) and its last element is
\* (y >> 5n) * 2^r + (x >> 5n) + the sum of 4^k for k < r
C17_PathContents ==
  PathCall
    => LET zoom == last.c[2]
           x    == last.c[3]
           y    == last.c[4]
           n    == zoom \div 5
           r    == zoom - 5 * n
       IN  /\ last.bytes = GetTilePath(zoom, x, y)
           /\ Len(last.bytes) = n + 1
           /\ \A i \in 0..(n - 1) :
                last.bytes[i + 1]
                  = 341 + (Shr(y, 5 * i) % 32) * 32 + (Shr(x, 5 * i) % 32)
           /\ last.bytes[n + 1] = Shr(y, 5 * n) * (2 ^ r) + Shr(x, 5 * n) + Sum4(r)

C17_Witness ==
  /\ PathCall /\ last.c = << 0, 12, (2 ^ 12) \div 3, 2 ^ 12 - 1 >>
  /\ last.bytes = << 341 + 31 * 32 + 21, 341 + 31 * 32 + 10, 5 + 3 * 4 + 1 >>

\* C18: _buildDirSize(depth, maxzoom) returns, for every depth and maxzoom in
\* 0..30, and when maxzoom >= depth what it returns is 10 times the sum of 4^k
\* for k = 0..min(maxzoom - depth, 5)
C18_DirSize ==
  last.op = "_buildDirSize"
    => /\ last.err = "none"
       /\ last.c[2] >= last.c[1]
            => last.meta = Sum4(Min(last.c[2] - last.c[1], 5) + 1) * 10

\* the directories of the archive: the six roots, the leaf directories that
\* completed and in-flight putTile calls created, and the one just zero-filled
LeavesOf(entries) == {<< entries[i].off, entries[i].size >> : i \in 1..Len(entries)}
RootDirs == {<< METADATA_SIZE + f * DIR_SIZE, DIR_SIZE >> : f \in 0..5}
LeafDirs ==
  UNION {LeavesOf(log[i].leaves) : i \in 1..Len(log)}
    \cup LeavesOf(pc[1].leaves)
    \cup (IF pc[1].at = "filled" THEN {pc[1].leaf} ELSE {})
Dirs == RootDirs \cup LeafDirs

\* the positions of the records of directory d that are not (0, 0)
RecordsOf(d) ==
  {d[1] + ((p - d[1]) \div NODE_SIZE) * NODE_SIZE :
     p \in {q \in DOMAIN file.data : q >= d[1] /\ q < d[1] + d[2]}}

RecordValid(s) ==
  LET rec == ReadAt(file, s, NODE_SIZE)
  IN  /\ readUInt48LE(rec) >= METADATA_SIZE
      /\ readUInt48LE(rec) + FromLE32(rec, 6) <= file.len

\* C19: in every state of a sequence of putTile calls on one handle, the states
\* between the file operations of a call included, every record of a root or
\* leaf directory that is not (0, 0) has offset >= 131,072 and offset + length
\* <= the file's length; the payload of the call in flight is in the file
\* before its node record is written, and so is a new leaf directory before
\* the pointer to it
C19_NoDangling ==
  /\ \A d \in Dirs : \A s \in RecordsOf(d) : RecordValid(s)
  /\ pc[1].at # "idle" => pc[1].node[1] >= METADATA_SIZE /\ pc[1].node[1] + pc[1].node[2] <= file.len
  /\ pc[1].at \in {"filled", "pointed"}
       => pc[1].leaf[1] >= METADATA_SIZE /\ pc[1].leaf[1] + pc[1].leaf[2] <= file.len
  /\ pc[1].at = "filled" => ReadAt(file, pc[1].cursor, NODE_SIZE) = [i \in 1..NODE_SIZE |-> 0]

C19_Witness ==
  /\ pc[1].at = "filled" /\ pc[1].c = << 1, 10, 513, 513 >> /\ pc[1].depth = 1
  /\ Len(log) = 1 /\ log[1].c = << 0, 9, 22, 9 >>
  /\ Cardinality(LeafDirs) = 2

\* the regions of the archive: the header, the roots, the leaf directories, and
\* the payloads of the completed calls and of the call in flight
Regions ==
  {[kind |-> "header", id |-> 0, start |-> 0, size |-> METADATA_SIZE]}
    \cup {[kind |-> "root", id |-> d[1], start |-> d[1], size |-> d[2]] : d \in RootDirs}
    \cup {[kind |-> "leaf", id |-> d[1], start |-> d[1], size |-> d[2]] : d \in LeafDirs}
    \cup {[kind |-> "payload", id |-> i, start |-> log[i].at, size |-> log[i].length] :
            i \in 1..Len(log)}
    \cup (IF pc[1].at = "idle" THEN {}
          ELSE {[kind |-> "payload", id |-> 0, start |-> pc[1].node[1], size |-> pc[1].node[2]]})

Disjoint(a, b) == a.start + a.size <= b.start \/ b.start + b.size <= a.start

\* the leaf directories with the slot that holds the pointer to each
LeafEntries ==
  UNION {{log[i].leaves[k] : k \in 1..Len(log[i].leaves)} : i \in 1..Len(log)}
    \cup {pc[1].leaves[k] : k \in 1..Len(pc[1].leaves)}

Holds(d, slot) ==
  /\ slot >= d[1] /\ slot + NODE_SIZE <= d[1] + d[2]
  /\ (slot - d[1]) % NODE_SIZE = 0

\* the zoom at which the levels of the directory at `start` begin
RECURSIVE DirDepth(_)
DirDepth(start) ==
  IF \E d \in RootDirs : d[1] = start THEN 0
  ELSE LET l == CHOOSE e \in LeafEntries : e.off = start
           h == CHOOSE d \in Dirs : Holds(d, l.slot)
       IN  5 + DirDepth(h[1])

\* the size of a directory whose levels begin at zoom `depth`
ExpectedSize(depth, maxzoom) == Sum4(Min(maxzoom - depth, 5) + 1) * NODE_SIZE

\* C20: with Compression.None and tile coordinates in range, the header, the
\* six root directories (face f at 131072 + f * DIR_SIZE), the leaf directories
\* and the payloads are pairwise disjoint; the pointer to a leaf directory
\* carries the size of a directory of its depth for the archive's maxzoom; and
\* every slot the walker reads or writes is a slot of the directory it is in
C20_Layout ==
  ctor.compression = None
    => /\ \A a, b \in Regions : a # b => Disjoint(a, b)
       /\ \A l \in LeafEntries :
            /\ \E d \in Dirs : Holds(d, l.slot)
            /\ ReadAt(file, l.slot, NODE_SIZE)
                 = writeUInt48LE(l.off)
                     \o LE32(ExpectedSize(DirDepth(l.off), ctor.maxzoom))
       /\ pc[1].at \in {"read", "filled", "pointed", "node"}
            => pc[1].dir \in Dirs /\ Holds(pc[1].dir, pc[1].cursor)

C20_Witness ==
  /\ ctor.compression = None /\ pc[1].at = "node" /\ pc[1].c = << 0, 9, 22, 9 >>
  /\ Len(log) = 1 /\ log[1].c = << 1, 10, 513, 513 >>
  /\ pc[1].dir \in LeafDirs /\ Cardinality(LeafDirs) = 2

\* the slots that hold the pointer to a leaf directory
PointerSlots == {l.slot : l \in LeafEntries}

\* C21: with tile coordinates in range, a slot that holds the pointer to a leaf
\* directory is not written again, by a later leaf allocation or by a node
\* record; every leaf directory has one pointer slot and every pointer slot
\* one directory, so the directories reachable from the roots form a tree
C21_PointersWriteOnce ==
  [][/\ \A l \in LeafEntries :
          ReadAt(file', l.slot, NODE_SIZE) = ReadAt(file, l.slot, NODE_SIZE)
     /\ pc'[1].at = "pointed" => pc[1].cursor \notin PointerSlots
     /\ pc[1].at = "node" => pc[1].cursor \notin PointerSlots
     /\ \A l, m \in LeafEntries : (l.slot = m.slot \/ l.off = m.off) => l = m]_vars

C21_Witness ==
  /\ pc[1].at = "node" /\ pc[1].c = << 0, 5, 22, 9 >>
  /\ Len(log) = 1 /\ log[1].c = << 0, 9, 22, 9 >> /\ Len(log[1].leaves) = 1
  /\ pc[1].dir = << log[1].leaves[1].off, log[1].leaves[1].size >>
  /\ pc[1].leaves = << >>

\* the call in flight writes a tile of the deepest zoom of an archive whose
\* maxzoom is a multiple of 5
Shortcut ==
  /\ pc[1].at # "idle"
  /\ handles["W"].maxzoom % 5 = 0 /\ pc[1].c[2] = handles["W"].maxzoom /\ pc[1].c[2] >= 5

\* C22: when maxzoom is a multiple of 5 and zoom = maxzoom >= 5, #walk returns
\* a level-5 slot of the directory of depth maxzoom - 5 with the last (zero)
\* path element left, without reading that slot and without a leaf directory
\* for the last element: the call allocates at most maxzoom / 5 - 1 leaf
\* directories, and none for maxzoom 5, where the file grows by the payload
\* only.  In every other case #walk goes through a leaf pointer for every path
\* element but the last
C22_TerminalShortcut ==
  /\ (pc[1].at = "node" /\ Shortcut)
       => /\ pc[1].path = << 0 >>
          /\ pc[1].depth = pc[1].c[2] \div 5
          /\ DirDepth(pc[1].dir[1]) = pc[1].c[2] - 5
          /\ (pc[1].cursor - pc[1].dir[1]) \div NODE_SIZE >= Sum4(5)
          /\ Len(pc[1].leaves) <= pc[1].c[2] \div 5 - 1
          /\ pc[1].c[2] = 5 => file.len = pc[1].node[1] + pc[1].node[2]
  /\ (pc[1].at = "read" /\ Shortcut) => pc[1].depth < pc[1].c[2] \div 5
  /\ (pc[1].at = "node" /\ ~Shortcut)
       => /\ pc[1].path = << >>
          /\ pc[1].depth = pc[1].c[2] \div 5 + 1
          /\ DirDepth(pc[1].dir[1]) = 5 * (pc[1].c[2] \div 5)

C22_Witness ==
  /\ pc[1].at = "node" /\ Shortcut /\ pc[1].c = << 1, 10, 513, 513 >>
  /\ Len(pc[1].leaves) = 1 /\ pc[1].path = << 0 >>

\* C23: hasTile and getTile leave the file as it is, allocate no leaf
\* directory and leave the append cursor of every handle where it was, for
\* any coordinate and in any state of the archive
C23_ReadsDoNotWrite ==
  [][last'.op \in {"hasTile", "getTile"}
       => /\ file' = file
          /\ \A h \in DOMAIN handles : handles'[h].offset = handles[h].offset
          /\ log' = log]_vars

C23_Witness ==
  /\ last.op = "getTile" /\ last.h = "R" /\ last.c = << 2, 5, 0, 0 >>
  /\ last.err = "none" /\ committed # << >> /\ Len(log) = 2
  /\ file.len = handles["W"].offset /\ handles["R"].offset = ROOT_SIZE

\* the byte ranges (offset, length) that the putTile calls, completed and in
\* flight, took for their payloads, by call
PayloadRanges ==
  {[id |-> i, start |-> log[i].at, size |-> log[i].length] : i \in 1..Len(log)}
    \cup {[id |-> 0 - k, start |-> pc[k].node[1], size |-> pc[k].node[2]] :
            k \in {j \in Calls : pc[j].at # "idle"}}

\* C24: two putTile calls started on one handle without awaiting the first take
\* effect as if run one after the other: their payloads have disjoint byte
\* ranges, and when both have returned the cursor has advanced by both
\* lengths (and the leaf directories) and each payload is in the file where
\* its node record says
C24_Serialized ==
  /\ \A a, b \in PayloadRanges : a # b => Disjoint(a, b)
  /\ (\A k \in Calls : pc[k].at = "idle")
       => /\ handles["W"].offset
               = ROOT_SIZE + SumSizes([i \in 1..Len(log) |-> log[i].length])
                   + SumSizes([i \in 1..Len(log) |->
                                 SumSizes([n \in 1..Len(log[i].leaves) |->
                                             log[i].leaves[n].size])])
          /\ \A i \in 1..Len(log) : ReadAt(file, log[i].at, log[i].length) = log[i].data

\* C25: on a handle opened on a committed archive, no read returns while the
\* header parse of an earlier read is still pending; a read that returns has
\* used the maxzoom and the compression of the header, not the constructor's
\* defaults, and getMetadata does not return undefined
C25_ReadsWaitForHeader ==
  (last.h = "R" /\ last.op \in ReadOps)
    => /\ ~handles["R"].parsing
       /\ handles["R"].maxzoom = committed[1].maxzoom
       /\ handles["R"].compression = committed[1].compression
       /\ last.op = "getMetadata" => last.err = "none" /\ last.meta = committed[1].meta

\* the slot #walk resolves coordinate c to, once its leaf directories exist
TerminalSlot(c) ==
  walk(file, handles["W"].offset, handles["W"].maxzoom, c[1], c[2], c[3], c[4], FALSE).cursor

\* the latest completed putTile of the coordinate of log[i]
Latest(i) == \A j \in (i + 1)..Len(log) : log[j].c # log[i].c

\* C26: with tile coordinates in range on one handle, two distinct coordinates
\* do not resolve to the same terminal slot, and no terminal slot holds the
\* pointer to a leaf directory; so while and after a putTile at another
\* coordinate, the slot of a tile written before still holds its node record
\* and, with Compression.None, its payload bytes are what was written
C26_SlotInjective ==
  /\ \A i, j \in 1..Len(log) :
       log[i].c # log[j].c => TerminalSlot(log[i].c) # TerminalSlot(log[j].c)
  /\ \A i \in 1..Len(log) :
       /\ TerminalSlot(log[i].c) \notin PointerSlots
       /\ (pc[1].at = "node" /\ pc[1].c # log[i].c)
            => pc[1].cursor # TerminalSlot(log[i].c)
       /\ Latest(i)
            => /\ ReadAt(file, TerminalSlot(log[i].c), NODE_SIZE)
                    = writeUInt48LE(log[i].at) \o LE32(log[i].length)
               /\ ctor.compression = None
                    => ReadAt(file, log[i].at, log[i].length) = log[i].data

C26_Witness ==
  /\ Len(log) = 2 /\ log[1].c = << 0, 9, 22, 9 >> /\ log[2].c = << 0, 5, 22, 9 >>
  /\ pc[1].at = "idle" /\ ctor.compression = None
  /\ Cardinality(LeafDirs) = 1
  /\ TerminalSlot(log[2].c) = log[1].leaves[1].off

\* the call in flight has visited no more directories than its path has
\* elements, and its leaf directories are sized at a depth below maxzoom and
\* have five slots or more
Bounded ==
  pc[1].at # "idle"
    => /\ pc[1].depth <= pc[1].c[2] \div 5 + 1
       /\ pc[1].at = "filled"
            => /\ pc[1].depth * 5 < handles["W"].maxzoom
               /\ pc[1].leaf[2] >= 5 * NODE_SIZE
       /\ \A n \in 1..Len(pc[1].leaves) : pc[1].leaves[n].size >= 5 * NODE_SIZE

\* C27: for every maxzoom in 0..30 and every coordinate in range, putTile
\* returns, after visiting at most floor(zoom / 5) + 1 directories; every leaf
\* directory it allocates is sized with a depth below maxzoom, so that the
\* size loop ends, and has at least 5 slots
C27_PutTileTerminates ==
  /\ []Bounded
  /\ (pc[1].at # "idle") ~> (pc[1].at = "idle")

C27_Witness ==
  /\ ctor.maxzoom = MaxZoom /\ pc[1].at = "filled" /\ pc[1].c = << 5, 30, 2 ^ 30 - 1, 2 ^ 30 - 1 >>
  /\ pc[1].depth = 5 /\ Len(pc[1].leaves) = 4 /\ log = << >>

\* some record of a directory has offset `at`
Referenced(at) ==
  \E d \in Dirs : \E q \in RecordsOf(d) : readUInt48LE(ReadAt(file, q, NODE_SIZE)) = at

\* C28: when putTile is called again for a coordinate (Compression.None), the
\* terminal slot holds the (offset, length) of the later payload, a getTile on
\* the committed archive returns the later payload, the later call allocates
\* no leaf directory, and the earlier payload's bytes stay in the file as
\* written, with no record pointing at them
C28_LastWriteWins ==
  \A i, j \in 1..Len(log) :
    (i < j /\ log[i].c = log[j].c)
      => /\ log[j].leaves = << >>
         /\ ReadAt(file, log[i].at, log[i].length) = log[i].data
         /\ ~Referenced(log[i].at)
         /\ Latest(j)
              => /\ ReadAt(file, TerminalSlot(log[j].c), NODE_SIZE)
                      = writeUInt48LE(log[j].at) \o LE32(log[j].length)
                 /\ committed # << >>
                      => LET r == getTileS2(file, NewHandle(0, Gzip), log[j].c[1],
                                            log[j].c[2], log[j].c[3], log[j].c[4])
                         IN  r.err = "none" /\ ~r.undef /\ r.ret = log[j].data

C28_Witness ==
  /\ Len(log) = 2 /\ log[1].c = << 0, 9, 22, 9 >> /\ log[2].c = << 0, 9, 22, 9 >>
  /\ log[1].data = Hello /\ log[2].data = << 7 >>
  /\ log[1].leaves # << >> /\ committed # << >>

====
